---- MODULE Spec2Model ----
(***************************************************************************)
(* Shadow AI detection platform: the event store (database.py), the value  *)
(* enrichment service (value_enrichment_service.py), the enrichment worker *)
(* (value_enrichment_worker.py), the classifiers (risk_rules.py,           *)
(* use_cases.py) and the aggregator (aggregator.py).                       *)
(*                                                                         *)
(* The store is modelled as its two tables.  Every write method runs in    *)
(* one sqlite3 transaction (Database.get_connection): statements act on    *)
(* the connection's working copy, which replaces the committed database    *)
(* at commit and is dropped at rollback.  The bookkeeping columns          *)
(* created_at / updated_at and the surrogate key of value_enrichment are   *)
(* not modelled (the surrogate key is the position of the row).            *)
(***************************************************************************)
EXTENDS Integers, Sequences, FiniteSets, TLC

\* ------------------------------------------------------------------ bounds
NumEvents == 2
BatchSize == 1
MaxStat == 2
NumQueryEvents == 3
MaxUrlLen == 3
MaxLogEvents == 3

\* ------------------------------------------------------- program constants
max_retries == 3
retry_delay == 1
\* ValueEnrichmentWorker(batch_size=50), the default of --batch-size
default_batch_size == 50
LARGE_DATA_THRESHOLD == 4096
DATA_EXTRACTION_THRESHOLD == 10000

EventIds == 1..NumEvents
\* The ids the callers of the store's API use (SpecStore).
StoreIds == {1, 2}
None == "None"

\* Optional[int]: None where an int may stand, and an int that is there
NoInt == << >>
SomeInt(n) == << n >>
IntOf(x) == x[1]

\* ---------------------------------------------------------------- datetime
\* A datetime is the reading of a wall clock (one unit is an hour) and the
\* offset of that clock from UTC, NoInt for a naive datetime.  The parser makes
\* naive datetimes of "...Z" log times and aware ones of "...+hh:mm" log times.
datetime(wall, utcoffset) == [ wall |-> wall, utcoffset |-> utcoffset ]

\* The point in time of a datetime: the order Python puts aware datetimes in
\* (a naive one is a UTC reading, the "Z" of the log format).
Instant(t) == IF t.utcoffset = NoInt THEN t.wall ELSE t.wall - IntOf(t.utcoffset)

\* datetime.isoformat(): the TEXT stored in events.timestamp, the wall clock
\* reading followed by "+hh:mm" for an aware datetime and by nothing otherwise
isoformat(t) == [ iso |-> <<t.wall, t.utcoffset>> ]

\* datetime.fromisoformat(text)
fromisoformat(text) == datetime(text.iso[1], text.iso[2])

\* The place of a "+hh:mm" suffix among the suffixes, as bytes compare:
\* no suffix first, then the offsets east of UTC in growing order.
SuffixRank(utcoffset) == IF utcoffset = NoInt THEN 0 ELSE IntOf(utcoffset) + 1

\* text a <= text b in SQLite's BINARY collation (ORDER BY on a TEXT column):
\* the wall clock readings are of equal length and compare first
TextLeq(a, b) ==
    \/ a.iso[1] < b.iso[1]
    \/ /\ a.iso[1] = b.iso[1]
       /\ SuffixRank(a.iso[2]) <= SuffixRank(b.iso[2])

\* ------------------------------------------------------------ AIUsageEvent
\* Two classified events per id: version 1 is what the parser produces for a
\* log row, version 2 is the same id re-classified by another source system.
Versions == {1, 2}

AIUsageEvent(i, v) ==
    [ id |-> i,
      timestamp |-> IF v = 1 THEN datetime(i, NoInt) ELSE datetime(2, NoInt),
      user_email |-> IF v = 1 THEN "a@corp.example" ELSE "b@corp.example",
      department |-> IF v = 1 THEN "Legal" ELSE "Marketing",
      source_ip |-> IF v = 1 THEN "10.0.0.1" ELSE "10.0.0.2",
      provider |-> IF v = 1 THEN "openai" ELSE "anthropic",
      service |-> IF v = 1 THEN "chat" ELSE "web_ui",
      url |-> IF v = 1 THEN "https://api.openai.com/v1/chat/completions"
                       ELSE "https://claude.ai/chat",
      bytes_sent |-> IF v = 1 THEN SomeInt(5000) ELSE SomeInt(500),
      bytes_received |-> IF v = 1 THEN SomeInt(100) ELSE SomeInt(200),
      risk_level |-> IF v = 1 THEN "high" ELSE "medium",
      risk_reasons |-> IF v = 1
                       THEN <<"high_sensitivity_department", "large_data_transfer">>
                       ELSE <<"external_ai_usage">>,
      source_system |-> IF v = 1 THEN "network_logs_v1" ELSE "proxy_logs_v2",
      notes |-> IF v = 1 THEN None ELSE "re-classified",
      pii_risk |-> (v = 2),
      pii_reasons |-> IF v = 1 THEN <<>> ELSE <<"pii_keyword_in_url:patient">>,
      use_case |-> IF v = 1 THEN "analysis_or_chat" ELSE "content_generation" ]

StoreInputs == { AIUsageEvent(i, v) : i \in StoreIds, v \in Versions }
IngestInputs == { AIUsageEvent(i, 1) : i \in EventIds }

\* json.dumps(list): the TEXT stored in risk_reasons / pii_reasons
json_dumps(l) == [json |-> l]

\* ------------------------------------------------------- enrichment dicts
\* dict.get(key, default)
dict_get(d, k, default) == IF k \in DOMAIN d THEN d[k] ELSE default

\* A complete response of the external service (all seven required fields).
LLMEnrichment ==
    [ value_category |-> "Productivity",
      estimated_minutes_saved |-> 30,
      business_outcome |-> "Faster contract review",
      department |-> "Legal",
      risk_level |-> "High",
      policy_alignment |-> "Questionable",
      summary |-> "Contract review with a chat assistant" ]

\* A second complete response, for re-enrichment through the store's API.
LLMEnrichment2 ==
    [ LLMEnrichment EXCEPT !.value_category = "Quality",
                           !.estimated_minutes_saved = 5 ]

\* A dict that lacks required keys (the defaults of save_value_enrichment apply).
IncompleteDict == [ value_category |-> "Revenue" ]

\* `enrichment` is None
NoEnrichment == [ is_none |-> TRUE ]

\* -------------------------------------------------------------- the store
EmptyDb == [ events |-> {}, value_enrichment |-> <<>> ]

HasEvent(ev, i) == \E r \in ev : r.id = i
EventRow(ev, i) == CHOOSE r \in ev : r.id = i
EventRows(ev, i) == { r \in ev : r.id = i }

EnrichmentRows(ve, i) == { k \in DOMAIN ve : ve[k].event_id = i }
HasEnrichment(ve, i) == EnrichmentRows(ve, i) # {}
EnrichmentRow(ve, i) == ve[CHOOSE k \in DOMAIN ve : ve[k].event_id = i]

\* INSERT INTO events ... VALUES (...): the row of a new event
InsertedEventRow(e) ==
    [ id |-> e.id,
      timestamp |-> isoformat(e.timestamp),
      user_email |-> e.user_email,
      department |-> e.department,
      source_ip |-> e.source_ip,
      provider |-> e.provider,
      service |-> e.service,
      url |-> e.url,
      bytes_sent |-> e.bytes_sent,
      bytes_received |-> e.bytes_received,
      risk_level |-> e.risk_level,
      risk_reasons |-> json_dumps(e.risk_reasons),
      source_system |-> e.source_system,
      notes |-> e.notes,
      pii_risk |-> IF e.pii_risk THEN 1 ELSE 0,
      pii_reasons |-> json_dumps(e.pii_reasons),
      use_case |-> e.use_case,
      value_enriched |-> 0 ]

\* A bug the claims must exclude: the conflict branch also resets the flag.
ConflictUpdatedEventRowResetsFlag(r, e) == InsertedEventRow(e)

\* A bug the claims must exclude: ON CONFLICT(id) DO NOTHING.
ConflictDoNothing(r, e) == r

\* ON CONFLICT(id) DO UPDATE SET ...: the columns the statement lists
ConflictUpdatedEventRow(r, e) ==
    [ r EXCEPT !.timestamp = isoformat(e.timestamp),
               !.user_email = e.user_email,
               !.department = e.department,
               !.source_ip = e.source_ip,
               !.provider = e.provider,
               !.service = e.service,
               !.url = e.url,
               !.bytes_sent = e.bytes_sent,
               !.bytes_received = e.bytes_received,
               !.risk_level = e.risk_level,
               !.risk_reasons = json_dumps(e.risk_reasons),
               !.notes = e.notes,
               !.pii_risk = IF e.pii_risk THEN 1 ELSE 0,
               !.pii_reasons = json_dumps(e.pii_reasons),
               !.use_case = e.use_case ]

\* A bug the claims must exclude: id is no key, every call inserts a row.
InsertEventAlways(ev, e) == ev \cup { InsertedEventRow(e) }

\* Database.upsert_event: the events table after the statement
upsert_event(ev, e) ==
    IF HasEvent(ev, e.id)
    THEN { IF r.id = e.id THEN ConflictUpdatedEventRow(r, e) ELSE r : r \in ev }
    ELSE ev \cup { InsertedEventRow(e) }

\* The row save_value_enrichment binds to its INSERT
EnrichmentValues(event_id, enrichment, raw_response, error) ==
    [ event_id |-> event_id,
      value_category |-> dict_get(enrichment, "value_category", "Unknown"),
      estimated_minutes_saved |-> dict_get(enrichment, "estimated_minutes_saved", 0),
      business_outcome |-> dict_get(enrichment, "business_outcome", ""),
      department |-> dict_get(enrichment, "department", "Unknown"),
      risk_level |-> dict_get(enrichment, "risk_level", "Medium"),
      policy_alignment |-> dict_get(enrichment, "policy_alignment", "Questionable"),
      summary |-> dict_get(enrichment, "summary", ""),
      raw_llm_response |-> raw_response,
      enrichment_error |-> error ]

\* A bug the claims must exclude: no uniqueness on event_id, every save inserts.
InsertEnrichmentAlways(ve, event_id, enrichment, raw_response, error) ==
    Append(ve, EnrichmentValues(event_id, enrichment, raw_response, error))

\* A bug the claims must exclude: enrichment_error is missing from the ON
\* CONFLICT list, the record of a retried event keeps its old error.
InsertOrUpdateKeepsError(ve, event_id, enrichment, raw_response, error) ==
    IF HasEnrichment(ve, event_id)
    THEN [ k \in DOMAIN ve |->
             IF ve[k].event_id = event_id
             THEN [ EnrichmentValues(event_id, enrichment, raw_response, error)
                      EXCEPT !.enrichment_error = ve[k].enrichment_error ]
             ELSE ve[k] ]
    ELSE Append(ve, EnrichmentValues(event_id, enrichment, raw_response, error))

\* First statement of save_value_enrichment:
\* INSERT INTO value_enrichment ... ON CONFLICT(event_id) DO UPDATE SET ...
\* (foreign keys are not enforced: the connection never enables them)
InsertOrUpdateEnrichment(ve, event_id, enrichment, raw_response, error) ==
    IF HasEnrichment(ve, event_id)
    THEN [ k \in DOMAIN ve |->
             IF ve[k].event_id = event_id
             THEN EnrichmentValues(event_id, enrichment, raw_response, error)
             ELSE ve[k] ]
    ELSE Append(ve, EnrichmentValues(event_id, enrichment, raw_response, error))

\* Python truthiness of the `error` argument (None and "" are falsy)
Truthy(error) == error # None /\ error # ""

\* A bug the claims must exclude: the flag is set whatever the error.
MarksEnrichedAlways(error) == TRUE

\* `if not error:` guards the second statement of save_value_enrichment
MarksEnriched(error) == ~Truthy(error)

\* A bug the claims must exclude: the UPDATE matches no row.
MarkEventEnrichedNoRow(ev, event_id) == ev

\* Second statement: UPDATE events SET value_enriched = 1 WHERE id = ?
MarkEventEnriched(ev, event_id) ==
    { IF r.id = event_id THEN [r EXCEPT !.value_enriched = 1] ELSE r : r \in ev }

\* Database.save_value_enrichment, both statements, as committed
save_value_enrichment(d, event_id, enrichment, raw_response, error) ==
    [ events |-> IF MarksEnriched(error)
                 THEN MarkEventEnriched(d.events, event_id)
                 ELSE d.events,
      value_enrichment |-> InsertOrUpdateEnrichment(d.value_enrichment, event_id,
                                                    enrichment, raw_response, error) ]

\* ------------------------------------------------------------------ state
VARIABLES
    db,        \* the committed tables: what every connection reads (database.py:47-91)
    conn,      \* the worker's connection: Closed, or the working copy of its open
               \* transaction (database.py:28-40)
    pc,        \* where the worker is in run / process_batch / process_event:
               \* "fetch", "call", "backoff", "save", "mark", "commit", "pace",
               \* "sleep", "stopped"
    batch,     \* process_batch: the rows get_unenriched_events returned
    idx,       \* process_batch: the position in batch of the event being processed
    attempt,   \* call_llm_for_enrichment: the 0-based attempt index
    outcome,   \* how the last attempt ended ("none" before the first one ends)
    result,    \* process_event: (enrichment, raw_response, error)
    stats,     \* ValueEnrichmentWorker.stats
    raised,    \* the exception handled last: "none", "fetch", "save", "interrupt"
    saved,     \* history: the error arguments of the saves committed by the
               \* current process_event call
    okSaves,   \* history: committed error-free saves per event id (counted up to 2)
    lastCall,  \* history: the last call of the store's API (SpecStore)
    peer       \* a second orchestrator instance on the same store: the values of
               \* its conn ... saved while the first one is the one taking steps

vars == <<db, conn, pc, batch, idx, attempt, outcome, result, stats,
          raised, saved, okSaves, lastCall, peer>>

workerVars == <<conn, pc, batch, idx, attempt, outcome, result, stats, raised,
                saved, peer>>

Closed == [ open |-> FALSE ]
NoResult == [ enrichment |-> NoEnrichment, raw_response |-> None, error |-> None ]
NoCall == [ op |-> "none" ]

\* ValueEnrichmentWorker.__init__: the state of an instance that has not run yet
NewWorker ==
    [ conn |-> Closed, pc |-> "fetch", batch |-> <<>>, idx |-> 0, attempt |-> 0,
      outcome |-> "none", result |-> NoResult,
      stats |-> [ events_processed |-> 0, events_enriched |-> 0,
                  events_failed |-> 0, batches_processed |-> 0 ],
      raised |-> "none", saved |-> <<>> ]

Init ==
    /\ db = EmptyDb
    /\ conn = Closed
    /\ pc = "fetch"
    /\ batch = <<>>
    /\ idx = 0
    /\ attempt = 0
    /\ outcome = "none"
    /\ result = NoResult
    /\ stats = [ events_processed |-> 0, events_enriched |-> 0,
                 events_failed |-> 0, batches_processed |-> 0 ]
    /\ raised = "none"
    /\ saved = <<>>
    /\ okSaves = [ i \in EventIds \cup StoreIds |-> 0 ]
    /\ lastCall = NoCall
    /\ peer = NewWorker

\* The state after construction with the store d on disk and, for a function
\* that is checked call by call, the call that is about to be made.
InitWith(d, call) ==
    /\ db = d
    /\ conn = Closed
    /\ pc = "fetch"
    /\ batch = <<>>
    /\ idx = 0
    /\ attempt = 0
    /\ outcome = "none"
    /\ result = NoResult
    /\ stats = [ events_processed |-> 0, events_enriched |-> 0,
                 events_failed |-> 0, batches_processed |-> 0 ]
    /\ raised = "none"
    /\ saved = <<>>
    /\ okSaves = [ i \in EventIds \cup StoreIds |-> 0 ]
    /\ lastCall = call
    /\ peer = NewWorker

\* ------------------------------------------ the store's API, call by call
\* The arguments a caller passes to save_value_enrichment.
SaveInputs ==
    { [ enrichment |-> LLMEnrichment, raw_response |-> "raw_complete", error |-> None ],
      [ enrichment |-> LLMEnrichment2, raw_response |-> "raw_complete_2", error |-> None ],
      [ enrichment |-> IncompleteDict, raw_response |-> "raw_incomplete",
        error |-> "Missing required fields" ],
      [ enrichment |-> LLMEnrichment, raw_response |-> "raw_complete", error |-> "" ] }

CountOk(n) == IF n < 2 THEN n + 1 ELSE n

\* upsert_event(e) commits
UpsertCall(e) ==
    /\ conn = Closed
    /\ db' = [ db EXCEPT !.events = upsert_event(db.events, e) ]
    /\ lastCall' = [ op |-> "upsert", event_id |-> e.id ]
    /\ UNCHANGED <<workerVars, okSaves>>

\* save_value_enrichment(i, a.enrichment, a.raw_response, a.error) commits
SaveCall(i, a) ==
    /\ conn = Closed
    /\ db' = save_value_enrichment(db, i, a.enrichment, a.raw_response, a.error)
    /\ okSaves' = IF Truthy(a.error) THEN okSaves
                  ELSE [ okSaves EXCEPT ![i] = CountOk(@) ]
    /\ lastCall' = [ op |-> "save", event_id |-> i, error |-> a.error ]
    /\ UNCHANGED workerVars

\* a write raises inside get_connection: rollback, the exception reaches the caller
CallRaises ==
    /\ conn = Closed
    /\ lastCall' = [ op |-> "raised" ]
    /\ UNCHANGED <<db, workerVars, okSaves>>

NextStore ==
    \/ \E e \in StoreInputs : UpsertCall(e)
    \/ \E i \in StoreIds, a \in SaveInputs : SaveCall(i, a)
    \/ CallRaises

SpecStore == Init /\ [][NextStore]_vars

\* ------------------------------------------------- sqlite3 transactions
\* What other connections read after a statement ran inside an open
\* transaction (`written` is the connection's working copy): sqlite3 opens a
\* transaction before the first INSERT/UPDATE, so nothing is visible yet.
\* A bug the claims must exclude: autocommit, every statement is its own commit.
execute_autocommit(d, written) == written

execute(d, written) == d

\* conn.commit() at the end of the `with` block
commit(d, written) == written

\* A bug the claims must exclude: the handler of get_connection commits what
\* the failed transaction wrote.
rollback_keeps_written(d, written) == written

\* conn.rollback() in `except Exception`, or close() of an open transaction
rollback(d, written) == d

\* --------------------------------------------------- get_unenriched_events
Min(a, b) == IF a < b THEN a ELSE b

\* A bug the claims must exclude: the query loses its WHERE clause.
UnenrichedUnfiltered(ev) == ev

\* WHERE value_enriched = 0
Unenriched(ev) == { r \in ev : r.value_enriched = 0 }

\* SELECT * FROM events WHERE value_enriched = 0 ORDER BY timestamp DESC LIMIT ?
\* Every list the query may return: rows of equal timestamp come in any order.
get_unenriched_events(ev, limit) ==
    LET cand == Unenriched(ev)
        n == Min(limit, Cardinality(cand))
    IN { s \in [1..n -> cand] :
           /\ \A j, k \in 1..n : j < k =>
                /\ s[j] # s[k]
                /\ TextLeq(s[k].timestamp, s[j].timestamp)
           /\ \A r \in cand : (\A j \in 1..n : s[j] # r) =>
                \A j \in 1..n : TextLeq(r.timestamp, s[j].timestamp) }

\* ----------------------------------- get_unenriched_events, call by call
\* The stores the query is called on: every event is absent, stored or stored
\* and enriched, with one of three log times, two of them of a proxy on UTC
\* and one of a proxy two hours east of it.
QueryIds == 1..NumQueryEvents
QueryLimits == 0..NumQueryEvents

QueryTimestamps ==
    { datetime(1, SomeInt(0)), datetime(2, SomeInt(0)), datetime(3, SomeInt(2)) }

QueryEvent(i, t) == [ AIUsageEvent(i, 1) EXCEPT !.timestamp = t ]

QueryChoices ==
    { [ stored |-> FALSE ] } \cup
    { [ stored |-> TRUE, timestamp |-> t, enriched |-> b ] :
        t \in QueryTimestamps, b \in BOOLEAN }

\* The store after the upsert_event and save_value_enrichment calls that c
\* chooses for the events 1..n.
RECURSIVE StoreOf(_, _)
StoreOf(c, n) ==
    IF n = 0 THEN EmptyDb
    ELSE LET d == StoreOf(c, n - 1)
             u == [ d EXCEPT !.events = upsert_event(@, QueryEvent(n, c[n].timestamp)) ]
         IN IF ~c[n].stored THEN d
            ELSE IF c[n].enriched
            THEN save_value_enrichment(u, n, LLMEnrichment, "raw_complete", None)
            ELSE u

QueryStores == { StoreOf(c, NumQueryEvents) : c \in [QueryIds -> QueryChoices] }

InitQuery == \E d \in QueryStores : InitWith(d, NoCall)

\* get_unenriched_events(limit) returns rows
QueryCall(limit) ==
    /\ conn = Closed
    /\ \E s \in get_unenriched_events(db.events, limit) :
         lastCall' = [ op |-> "query", limit |-> limit, rows |-> s ]
    /\ UNCHANGED <<db, workerVars, okSaves>>

NextQuery == \E n \in QueryLimits : QueryCall(n)

SpecQuery == InitQuery /\ [][NextQuery]_vars

\* ------------------------------------------------------ risk_rules.py
\* models.py: the enums and the department sets
Providers == { "openai", "anthropic", "google", "github_copilot", "perplexity", "unknown" }
Services == { "chat", "embeddings", "code_assist", "web_ui", "api", "unknown" }
HIGH_SENSITIVITY_DEPARTMENTS ==
    { "Clinical", "Claims", "Legal", "Trading", "Underwriting", "Wealth Management" }
MEDIUM_SENSITIVITY_DEPARTMENTS == { "Finance", "HR" }
ALLOWED_PROVIDERS == { }

\* Where the text of a url matters, the url is the tuple of its characters.
Alphabet == { "a", "A", "i", "I", "x" }

\* str.lower(), character by character
lower_char(c) ==
    CASE c = "A" -> "a"
      [] c = "I" -> "i"
      [] OTHER -> c

lower(u) == [ k \in DOMAIN u |-> lower_char(u[k]) ]

\* `sub in u` for two strings
Contains(u, sub) ==
    \E k \in 1..(Len(u) - Len(sub) + 1) : SubSeq(u, k, k + Len(sub) - 1) = sub

\* `event.department or ""`
DepartmentOrEmpty(event) == IF event.department = None THEN "" ELSE event.department

is_known_provider(event) == event.provider # "unknown"

is_unknown_with_ai(event) ==
    /\ event.provider = "unknown"
    /\ Contains(lower(event.url), << "a", "i" >>)

\* A bug the claims must exclude: the threshold itself is no large transfer.
is_large_transfer_above(event) ==
    /\ event.bytes_sent # NoInt
    /\ IntOf(event.bytes_sent) > LARGE_DATA_THRESHOLD

is_large_transfer(event) ==
    /\ event.bytes_sent # NoInt
    /\ IntOf(event.bytes_sent) >= LARGE_DATA_THRESHOLD

\* risk_reasons after the three HIGH RISK CONDITIONS
HighReasons(event) ==
    (IF is_known_provider(event) /\ DepartmentOrEmpty(event) \in HIGH_SENSITIVITY_DEPARTMENTS
     THEN << "high_sensitivity_department" >> ELSE << >>)
    \o (IF is_large_transfer(event) /\ is_known_provider(event)
        THEN << "large_data_transfer" >> ELSE << >>)
    \o (IF is_unknown_with_ai(event) THEN << "unknown_ai_provider" >> ELSE << >>)

\* A bug the claims must exclude: the function ends after the high conditions.
classify_risk_high_only(event) ==
    [ risk_level |-> "high", risk_reasons |-> HighReasons(event) ]

\* classify_risk(event) -> (risk_level, risk_reasons)
classify_risk(event) ==
    IF HighReasons(event) # << >>
    THEN [ risk_level |-> "high", risk_reasons |-> HighReasons(event) ]
    ELSE IF is_known_provider(event)
            /\ DepartmentOrEmpty(event) \in MEDIUM_SENSITIVITY_DEPARTMENTS
    THEN [ risk_level |-> "medium", risk_reasons |-> << "medium_sensitivity_department" >> ]
    ELSE IF is_known_provider(event)
    THEN [ risk_level |-> "medium", risk_reasons |-> << "external_ai_usage" >> ]
    ELSE [ risk_level |-> "low", risk_reasons |-> << "low_risk_ai_usage" >> ]

\* ------------------------------------------------------- use_cases.py
\* `event.bytes_sent or 0`
BytesSentOrZero(event) ==
    IF event.bytes_sent = NoInt THEN 0 ELSE IntOf(event.bytes_sent)

\* A bug the claims must exclude: rule 4 is tested before rule 3.
infer_use_case_chat_first(event) ==
    IF event.provider = "github_copilot" THEN "code_assistance"
    ELSE IF event.service = "web_ui" /\ event.provider \in { "openai", "anthropic", "google" }
    THEN "content_generation"
    ELSE IF event.service = "chat" THEN "analysis_or_chat"
    ELSE IF event.service = "api" /\ BytesSentOrZero(event) >= DATA_EXTRACTION_THRESHOLD
    THEN "data_extraction"
    ELSE IF event.service = "embeddings" THEN "data_extraction"
    ELSE "unknown"

\* infer_use_case(event) -> str
infer_use_case(event) ==
    IF event.provider = "github_copilot" THEN "code_assistance"
    ELSE IF event.service = "web_ui" /\ event.provider \in { "openai", "anthropic", "google" }
    THEN "content_generation"
    ELSE IF event.service = "chat" /\ BytesSentOrZero(event) >= DATA_EXTRACTION_THRESHOLD
    THEN "data_extraction"
    ELSE IF event.service = "chat" THEN "analysis_or_chat"
    ELSE IF event.service = "api" /\ BytesSentOrZero(event) >= DATA_EXTRACTION_THRESHOLD
    THEN "data_extraction"
    ELSE IF event.service = "embeddings" THEN "data_extraction"
    ELSE "unknown"

\* ---------------------------------------- the classifiers, call by call
\* The events the parser hands to the classifiers: risk_level "low", no
\* reasons, use_case "unknown".
Urls == UNION { [1..n -> Alphabet] : n \in 0..MaxUrlLen }
Departments == { None, "Legal", "Finance", "Marketing" }
BytesSent ==
    { NoInt, SomeInt(0), SomeInt(LARGE_DATA_THRESHOLD - 1), SomeInt(LARGE_DATA_THRESHOLD),
      SomeInt(DATA_EXTRACTION_THRESHOLD - 1), SomeInt(DATA_EXTRACTION_THRESHOLD) }

ParsedEvent(provider, service, department, bytes_sent, url) ==
    [ AIUsageEvent(1, 1) EXCEPT !.provider = provider,
                                !.service = service,
                                !.department = department,
                                !.bytes_sent = bytes_sent,
                                !.url = url,
                                !.risk_level = "low",
                                !.risk_reasons = << >>,
                                !.use_case = "unknown" ]

RiskInputs ==
    { ParsedEvent(p, "unknown", d, b, u) :
        p \in Providers, d \in Departments,
        b \in { NoInt, SomeInt(LARGE_DATA_THRESHOLD - 1), SomeInt(LARGE_DATA_THRESHOLD) },
        u \in Urls }

UseCaseInputs ==
    { ParsedEvent(p, s, None, b, << "x" >>) :
        p \in Providers, s \in Services, b \in BytesSent }

\* a call that is about to be made, and the call once it has returned
Pending(op, arg) == [ op |-> op, arg |-> arg, returned |-> FALSE ]
Returned(op, arg, ret) == [ op |-> op, arg |-> arg, returned |-> TRUE, ret |-> ret ]
IsPending(op) == lastCall.op = op /\ ~lastCall.returned
HasReturned(op) == lastCall.op = op /\ lastCall.returned

InitClassify ==
    \E call \in { Pending("classify_risk", e) : e \in RiskInputs }
                \cup { Pending("infer_use_case", e) : e \in UseCaseInputs } :
       InitWith(EmptyDb, call)

\* apply_risk_classification: classify_risk(event) returns
ClassifyCall ==
    /\ IsPending("classify_risk")
    /\ lastCall' = Returned("classify_risk", lastCall.arg, classify_risk(lastCall.arg))
    /\ UNCHANGED <<db, workerVars, okSaves>>

\* apply_use_case_classification: infer_use_case(event) returns
UseCaseCall ==
    /\ IsPending("infer_use_case")
    /\ lastCall' = Returned("infer_use_case", lastCall.arg, infer_use_case(lastCall.arg))
    /\ UNCHANGED <<db, workerVars, okSaves>>

NextClassify ==
    \/ ClassifyCall
    \/ UseCaseCall

SpecClassify == InitClassify /\ [][NextClassify]_vars

\* ------------------------------------------------------- aggregator.py
\* Of the summary the counts, the time range and the profile are modelled; the
\* percentages, events_per_day, the top lists, top_risks and the value
\* enrichment block are not.
\* collections.Counter of a list of keys, as a dict
Counter(keys) ==
    [ k \in { keys[j] : j \in DOMAIN keys } |->
        Cardinality({ j \in DOMAIN keys : keys[j] = k }) ]

\* [f(e) for e in events]
Field(events, f) == [ j \in DOMAIN events |-> events[j][f] ]

\* _empty_summary()
empty_summary ==
    [ kpis |-> [ total_events |-> 0, unique_users |-> 0, shadow_ai_events |-> 0,
                 high_risk_events |-> 0, pii_events_count |-> 0 ],
      risk_counts |-> [ low |-> 0, medium |-> 0, high |-> 0 ],
      events_by_provider |-> << >>,
      events_by_department |-> << >>,
      high_risk_events_by_department |-> << >>,
      events_by_use_case |-> << >>,
      time_range |-> [ start |-> None, end |-> None ],
      shadow_ai_profile |-> "No AI usage detected." ]

\* _generate_shadow_ai_profile: the f-string that is filled in
generate_shadow_ai_profile(department_counts, shadow_ai_events, total_events) ==
    IF total_events = 0 THEN "No AI usage detected in the analyzed logs."
    ELSE IF DOMAIN department_counts = {}
    THEN "Detected {total_events} AI events. About {shadow_pct}% involve unsanctioned tools."
    ELSE "Most AI usage is in {dept_summary}. About {shadow_pct}% of all AI events go to unsanctioned or unknown AI tools."

\* min(timestamps) / max(timestamps) compare the datetimes pairwise: Python
\* raises TypeError for a naive and an aware one
MixedDatetimes(ts) ==
    /\ \E j \in DOMAIN ts : ts[j].utcoffset = NoInt
    /\ \E j \in DOMAIN ts : ts[j].utcoffset # NoInt

\* min(timestamps): the first of the earliest ones
min_datetime(ts) ==
    ts[CHOOSE j \in DOMAIN ts :
         /\ \A k \in DOMAIN ts : Instant(ts[j]) <= Instant(ts[k])
         /\ \A k \in 1..(j - 1) : Instant(ts[k]) > Instant(ts[j])]

\* max(timestamps): the first of the latest ones
max_datetime(ts) ==
    ts[CHOOSE j \in DOMAIN ts :
         /\ \A k \in DOMAIN ts : Instant(ts[j]) >= Instant(ts[k])
         /\ \A k \in 1..(j - 1) : Instant(ts[k]) < Instant(ts[j])]

\* A bug the claims must exclude: risk_counts.high counts something else than
\* the events of level high.
HighCountOfReasons(events) ==
    Cardinality({ j \in DOMAIN events : Len(events[j].risk_reasons) > 1 })

\* risk_counts.get(RiskLevel.HIGH.value, 0)
HighCount(events) == dict_get(Counter(Field(events, "risk_level")), "high", 0)

\* aggregate_events(events): the summary, or the exception that ends the call
aggregate_events(events) ==
    IF events = << >> THEN empty_summary
    ELSE IF MixedDatetimes(Field(events, "timestamp")) THEN [ raised |-> "TypeError" ]
    ELSE
    LET total_events == Len(events)
        with_user == SelectSeq(events, LAMBDA e : Truthy(e.user_email))
        with_department == SelectSeq(events, LAMBDA e : Truthy(e.department))
        high_risk == SelectSeq(events, LAMBDA e : e.risk_level = "high")
        risk_counts == Counter(Field(events, "risk_level"))
        department_counts == Counter(Field(with_department, "department"))
        shadow_ai_events ==
            Len(SelectSeq(events, LAMBDA e : e.provider \notin ALLOWED_PROVIDERS))
        timestamps == Field(events, "timestamp")
    IN [ kpis |-> [ total_events |-> total_events,
                    unique_users |->
                        Cardinality({ with_user[j].user_email : j \in DOMAIN with_user }),
                    shadow_ai_events |-> shadow_ai_events,
                    high_risk_events |-> HighCount(events),
                    pii_events_count |->
                        Len(SelectSeq(events, LAMBDA e : e.pii_risk)) ],
         risk_counts |-> [ low |-> dict_get(risk_counts, "low", 0),
                           medium |-> dict_get(risk_counts, "medium", 0),
                           high |-> HighCount(events) ],
         events_by_provider |-> Counter(Field(events, "provider")),
         events_by_department |-> department_counts,
         high_risk_events_by_department |->
             Counter(Field(SelectSeq(high_risk, LAMBDA e : Truthy(e.department)),
                           "department")),
         events_by_use_case |-> Counter(Field(events, "use_case")),
         time_range |-> [ start |-> isoformat(min_datetime(timestamps)),
                          end |-> isoformat(max_datetime(timestamps)) ],
         shadow_ai_profile |->
             generate_shadow_ai_profile(department_counts, shadow_ai_events,
                                        total_events) ]

\* ----------------------------------------- aggregate_events, call by call
\* Classified events of a log: apply_use_case_classification and
\* apply_risk_classification have set use_case, risk_level and risk_reasons.
Classified(e) ==
    [ e EXCEPT !.risk_level = classify_risk(e).risk_level,
               !.risk_reasons = classify_risk(e).risk_reasons,
               !.use_case = infer_use_case(e) ]

LogEvent(user_email, t, provider, department, bytes_sent, url) ==
    Classified([ ParsedEvent(provider, "chat", department, bytes_sent, url)
                   EXCEPT !.user_email = user_email, !.timestamp = t ])

LogEvents ==
    { LogEvent("a@corp.example", datetime(1, NoInt), "openai", "Legal",
               SomeInt(LARGE_DATA_THRESHOLD), << "x" >>),
      LogEvent("a@corp.example", datetime(2, NoInt), "anthropic", "Finance",
               NoInt, << "x" >>),
      LogEvent(None, datetime(1, NoInt), "unknown", None, NoInt, << "x" >>),
      LogEvent("b@corp.example", datetime(3, SomeInt(2)), "unknown", "Marketing",
               SomeInt(0), << "a", "i" >>) }

Logs == UNION { [1..n -> LogEvents] : n \in 0..MaxLogEvents }

InitAggregate ==
    \E events \in Logs : InitWith(EmptyDb, Pending("aggregate_events", events))

\* aggregate_events(events) returns or raises
AggregateCall ==
    /\ IsPending("aggregate_events")
    /\ lastCall' = Returned("aggregate_events", lastCall.arg,
                            aggregate_events(lastCall.arg))
    /\ UNCHANGED <<db, workerVars, okSaves>>

NextAggregate == AggregateCall

SpecAggregate == InitAggregate /\ [][NextAggregate]_vars

\* ------------------------------------------------- the external service
\* What one call of client.chat.completions.create ends in.
Failures == { "timeout", "rate_limit", "api_error", "unexpected",
              "bad_json", "missing_fields" }
Outcomes == { "ok" } \cup Failures

\* raw_response of the attempt (None when the call itself raised)
RawOf(o) ==
    CASE o = "ok" -> "raw_complete"
      [] o = "bad_json" -> "raw_unparseable"
      [] o = "missing_fields" -> "raw_incomplete"
      [] OTHER -> None

\* the error message of the attempt
ErrorOf(o) ==
    CASE o = "timeout" -> "OpenAI API timeout"
      [] o = "rate_limit" -> "OpenAI rate limit exceeded"
      [] o = "api_error" -> "OpenAI API error"
      [] o = "unexpected" -> "Unexpected error"
      [] o = "bad_json" -> "Failed to parse JSON response"
      [] o = "missing_fields" -> "Missing required fields"
      [] OTHER -> None

\* 2 ** n
Pow2(n) == 2 ^ n

\* A bug the claims must exclude: a rate limit waits no longer than a timeout.
BackoffSameForAll(o, k) == retry_delay * Pow2(k)

\* the argument of time.sleep after a failed attempt (0-based attempt index)
Backoff(o, k) ==
    IF o = "rate_limit" THEN retry_delay * Pow2(k + 2) ELSE retry_delay * Pow2(k)

\* A bug the claims must exclude: the retry loop has one attempt too many.
MayRetryOnceMore(k) == k < max_retries

\* `if attempt < self.max_retries - 1:` (another attempt follows)
MayRetry(k) == k < max_retries - 1

\* The failure kinds that sleep before they test `attempt < max_retries - 1`
SleepsFirst(o) == o = "rate_limit"

\* What call_llm_for_enrichment returns once the attempts are over.
FailureResult(o) ==
    [ enrichment |-> NoEnrichment, raw_response |-> RawOf(o), error |-> ErrorOf(o) ]

SuccessResult ==
    [ enrichment |-> LLMEnrichment, raw_response |-> RawOf("ok"), error |-> None ]

\* ----------------------------------------------------------- the worker
\* The dict process_event saves when the service returned no enrichment.
partial_enrichment ==
    [ value_category |-> "Unknown",
      estimated_minutes_saved |-> 0,
      business_outcome |-> "",
      department |-> "Unknown",
      risk_level |-> "Medium",
      policy_alignment |-> "Questionable",
      summary |-> "Enrichment failed" ]

\* `if enrichment and not error:`
IsSuccess(res) == res.enrichment # NoEnrichment /\ ~Truthy(res.error)

\* the arguments of the save_value_enrichment call of process_event
SaveArgs(res) ==
    IF IsSuccess(res)
    THEN [ enrichment |-> res.enrichment, raw_response |-> res.raw_response,
           error |-> None ]
    ELSE [ enrichment |-> IF res.enrichment # NoEnrichment THEN res.enrichment
                          ELSE partial_enrichment,
           raw_response |-> res.raw_response, error |-> res.error ]

\* self.stats[...] += 1, the counter saturating at MaxStat
Inc(n) == IF n < MaxStat THEN n + 1 ELSE n

Cur == batch[idx].id

\* process_batch of a worker whose batch_size is `limit`: get_unenriched_events
\* returns, the loop over the batch starts (an empty batch returns 0 at once;
\* pc = "sleep" says that process_batch has returned)
ProcessBatch(limit) ==
    /\ pc = "fetch"
    /\ \E s \in get_unenriched_events(db.events, limit) :
         /\ batch' = s
         /\ IF s = <<>>
            THEN /\ pc' = "sleep"
                 /\ idx' = 0
            ELSE /\ pc' = "call"
                 /\ idx' = 1
    /\ attempt' = 0
    /\ outcome' = "none"
    /\ result' = NoResult
    /\ raised' = "none"
    /\ saved' = <<>>
    /\ UNCHANGED <<db, conn, stats, okSaves, lastCall, peer>>

\* run: the worker of the continuous loop, built with batch_size = BatchSize
Fetch == ProcessBatch(BatchSize)

\* A bug the claims must exclude: an exception of the batch ends the loop.
AfterBatchExceptionStops == "stopped"

\* A bug the claims must exclude: after an exception the loop fetches again at once.
AfterBatchExceptionRetries == "fetch"

\* run: `except Exception` logs, sleeps the interval and loops
AfterBatchException == "sleep"

\* process_batch: get_unenriched_events raises (the store is unreadable)
FetchRaises ==
    /\ pc = "fetch"
    /\ pc' = AfterBatchException
    /\ raised' = "fetch"
    /\ batch' = <<>>
    /\ idx' = 0
    /\ attempt' = 0
    /\ outcome' = "none"
    /\ result' = NoResult
    /\ saved' = <<>>
    /\ UNCHANGED <<db, conn, stats, okSaves, lastCall, peer>>

\* call_llm_for_enrichment: one attempt ends in outcome o
CallLLM(o) ==
    /\ pc = "call"
    /\ outcome' = o
    /\ IF o = "ok"
       THEN /\ result' = SuccessResult
            /\ pc' = "save"
       ELSE IF SleepsFirst(o) \/ MayRetry(attempt)
       THEN /\ result' = NoResult
            /\ pc' = "backoff"
       ELSE /\ result' = FailureResult(o)
            /\ pc' = "save"
    /\ UNCHANGED <<db, conn, batch, idx, attempt, stats, raised, saved, okSaves, lastCall, peer>>

\* call_llm_for_enrichment: time.sleep(Backoff(outcome, attempt)) is over
BackoffOver ==
    /\ pc = "backoff"
    /\ IF MayRetry(attempt)
       THEN /\ attempt' = attempt + 1
            /\ outcome' = "none"
            /\ result' = NoResult
            /\ pc' = "call"
       ELSE /\ result' = FailureResult(outcome)
            /\ pc' = "save"
            /\ UNCHANGED <<attempt, outcome>>
    /\ UNCHANGED <<db, conn, batch, idx, stats, raised, saved, okSaves, lastCall, peer>>

\* save_value_enrichment, first statement, on the worker's connection
SaveInsert ==
    /\ pc = "save"
    /\ LET a == SaveArgs(result)
           w == [ open |-> TRUE,
                  events |-> db.events,
                  value_enrichment |->
                      InsertOrUpdateEnrichment(db.value_enrichment, Cur,
                                               a.enrichment, a.raw_response, a.error),
                  error |-> a.error ]
       IN /\ conn' = w
          /\ db' = execute(db, [ events |-> w.events,
                                 value_enrichment |-> w.value_enrichment ])
          /\ pc' = IF MarksEnriched(a.error) THEN "mark" ELSE "commit"
    /\ UNCHANGED <<batch, idx, attempt, outcome, result, stats, raised, saved,
                   okSaves, lastCall, peer>>

\* save_value_enrichment, second statement (only without an error)
SaveMark ==
    /\ pc = "mark"
    /\ LET w == [ conn EXCEPT !.events = MarkEventEnriched(conn.events, Cur) ]
       IN /\ conn' = w
          /\ db' = execute(db, [ events |-> w.events,
                                 value_enrichment |-> w.value_enrichment ])
    /\ pc' = "commit"
    /\ UNCHANGED <<batch, idx, attempt, outcome, result, stats, raised, saved,
                   okSaves, lastCall, peer>>

\* get_connection commits; process_event counts the event and returns;
\* process_batch counts it as processed
SaveCommit ==
    /\ pc = "commit"
    /\ db' = commit(db, [ events |-> conn.events,
                          value_enrichment |-> conn.value_enrichment ])
    /\ conn' = Closed
    /\ saved' = Append(saved, conn.error)
    /\ okSaves' = IF Truthy(conn.error) THEN okSaves
                  ELSE [ okSaves EXCEPT ![Cur] = CountOk(@) ]
    /\ stats' = IF IsSuccess(result)
                THEN [ stats EXCEPT !.events_enriched = Inc(@),
                                    !.events_processed = Inc(@) ]
                ELSE [ stats EXCEPT !.events_failed = Inc(@),
                                    !.events_processed = Inc(@) ]
    /\ pc' = "pace"
    /\ UNCHANGED <<batch, idx, attempt, outcome, result, raised, lastCall, peer>>

\* A bug the claims must exclude: the event is counted as enriched before its
\* save is called, and as failed again when the save raises.
CountEnrichedBeforeSave(s, res) ==
    IF IsSuccess(res)
    THEN [ s EXCEPT !.events_enriched = Inc(@), !.events_failed = Inc(@) ]
    ELSE [ s EXCEPT !.events_failed = Inc(@) ]

\* process_event, `except Exception`: self.stats['events_failed'] += 1
CountException(s, res) == [ s EXCEPT !.events_failed = Inc(@) ]

\* a statement or the commit raises: get_connection rolls back and re-raises,
\* process_event logs the exception and counts the event as failed
SaveRaises ==
    /\ pc \in { "save", "mark", "commit" }
    /\ db' = IF conn = Closed THEN db
             ELSE rollback(db, [ events |-> conn.events,
                                 value_enrichment |-> conn.value_enrichment ])
    /\ conn' = Closed
    /\ raised' = "save"
    /\ stats' = [ CountException(stats, result) EXCEPT !.events_processed = Inc(@) ]
    /\ pc' = "pace"
    /\ UNCHANGED <<batch, idx, attempt, outcome, result, saved, okSaves, lastCall, peer>>

\* A bug the claims must exclude: the loop takes the same event again.
SameEvent(k) == k

\* `for event in events:` the position of the next event of the batch
NextEvent(k) == k + 1

\* process_batch: time.sleep(0.5) is over; the next event, or the batch is done
Pace ==
    /\ pc = "pace"
    /\ IF idx < Len(batch)
       THEN /\ idx' = NextEvent(idx)
            /\ pc' = "call"
            /\ UNCHANGED stats
       ELSE /\ stats' = [ stats EXCEPT !.batches_processed = Inc(@) ]
            /\ pc' = "sleep"
            /\ UNCHANGED idx
    /\ attempt' = 0
    /\ outcome' = "none"
    /\ result' = NoResult
    /\ raised' = "none"
    /\ saved' = <<>>
    /\ UNCHANGED <<db, conn, batch, okSaves, lastCall, peer>>

\* run: time.sleep(self.sleep_interval) is over, the next batch
Sleep ==
    /\ pc = "sleep"
    /\ pc' = "fetch"
    /\ raised' = "none"
    /\ UNCHANGED <<db, conn, batch, idx, attempt, outcome, result, stats, saved,
                   okSaves, lastCall, peer>>

\* KeyboardInterrupt: it is no Exception, so no handler of the service, of
\* process_event or of get_connection catches it; the connection is closed
\* with its transaction open (dropped) and run logs the final statistics
KeyboardInterrupt ==
    /\ pc # "stopped"
    /\ pc' = "stopped"
    /\ db' = IF conn = Closed THEN db
             ELSE rollback(db, [ events |-> conn.events,
                                 value_enrichment |-> conn.value_enrichment ])
    /\ conn' = Closed
    /\ raised' = "interrupt"
    /\ UNCHANGED <<batch, idx, attempt, outcome, result, stats, saved, okSaves, lastCall, peer>>

\* the ingestion pipeline (cli.py) upserts an event from its own connection;
\* sqlite lets one connection write at a time
Ingest(e) ==
    /\ conn = Closed
    /\ db' = [ db EXCEPT !.events = upsert_event(db.events, e) ]
    /\ UNCHANGED <<workerVars, okSaves, lastCall>>

Worker ==
    \/ Fetch
    \/ FetchRaises
    \/ \E o \in Outcomes : CallLLM(o)
    \/ BackoffOver
    \/ SaveInsert
    \/ SaveMark
    \/ SaveCommit
    \/ SaveRaises
    \/ Pace
    \/ Sleep

NextRunning ==
    \/ \E e \in IngestInputs : Ingest(e)
    \/ Worker

Next ==
    \/ NextRunning
    \/ KeyboardInterrupt

Spec == Init /\ [][Next]_vars

\* The runs without a shutdown in which the store never raises.  The worker
\* process is scheduled for ever: every step of its loop is eventually taken
\* (its sleeps end, its calls return).  Nothing is assumed of the answers of
\* the external service or of the ingestion.
WorkerNoFault ==
    \/ Fetch
    \/ \E o \in Outcomes : CallLLM(o)
    \/ BackoffOver
    \/ SaveInsert
    \/ SaveMark
    \/ SaveCommit
    \/ Pace
    \/ Sleep

NextNoFault ==
    \/ \E e \in IngestInputs : Ingest(e)
    \/ WorkerNoFault

FairSpec == Init /\ [][NextNoFault]_vars /\ WF_vars(WorkerNoFault)

\* run_once (--once): one process_batch call of a worker built with the default
\* batch size, the ingestion running beside it.  The fetch is taken to succeed
\* (an exception of it ends run_once before any event is processed).
RunOnce == ProcessBatch(default_batch_size)

NextOnce ==
    \/ \E e \in IngestInputs : Ingest(e)
    \/ RunOnce
    \/ \E o \in Outcomes : CallLLM(o)
    \/ BackoffOver
    \/ SaveInsert
    \/ SaveMark
    \/ SaveCommit
    \/ SaveRaises
    \/ Pace

SpecOnce == Init /\ [][NextOnce]_vars


\* ----------------------------------------- events as objects and as dicts
\* AIUsageEvent(...) without enrichment arguments: the five enrichment
\* attributes take their defaults (the parser and the classifiers build
\* events this way)
Dataclass(e) ==
    e @@ [ value_category |-> None,
           estimated_minutes_saved |-> NoInt,
           business_outcome |-> None,
           policy_alignment |-> None,
           value_summary |-> None ]

\* the elements of a list
Range(s) == { s[k] : k \in DOMAIN s }

\* json.loads(text) of a TEXT written by json_dumps
json_loads(text) == text.json

\* The columns v.* of a row of events that the LEFT JOIN matched with no row of
\* value_enrichment (all NULL)
NullEnrichmentRow == [ is_null |-> TRUE ]

\* get_all_events_with_enrichment: the AIUsageEvent built from the event row r
\* joined with the enrichment row v
LoadedEvent(r, v) ==
    [ id |-> r.id,
      timestamp |-> fromisoformat(r.timestamp),
      user_email |-> r.user_email,
      department |-> r.department,
      source_ip |-> r.source_ip,
      provider |-> r.provider,
      service |-> r.service,
      url |-> r.url,
      bytes_sent |-> r.bytes_sent,
      bytes_received |-> r.bytes_received,
      risk_level |-> r.risk_level,
      risk_reasons |-> json_loads(r.risk_reasons),
      source_system |-> r.source_system,
      notes |-> r.notes,
      pii_risk |-> (r.pii_risk # 0),
      pii_reasons |-> json_loads(r.pii_reasons),
      use_case |-> r.use_case,
      value_category |-> dict_get(v, "value_category", None),
      estimated_minutes_saved |->
          IF "estimated_minutes_saved" \in DOMAIN v
          THEN SomeInt(v.estimated_minutes_saved) ELSE NoInt,
      business_outcome |-> dict_get(v, "business_outcome", None),
      policy_alignment |-> dict_get(v, "policy_alignment", None),
      value_summary |-> dict_get(v, "summary", None) ]

\* FROM events e LEFT JOIN value_enrichment v ON e.id = v.event_id
LeftJoin(d) ==
    { p \in d.events \X Range(d.value_enrichment) : p[1].id = p[2].event_id }
    \cup { <<r, NullEnrichmentRow>> :
             r \in { x \in d.events : ~HasEnrichment(d.value_enrichment, x.id) } }

\* Database.get_all_events_with_enrichment: every list the query may return
\* (ORDER BY e.timestamp DESC, rows of equal timestamp in any order)
get_all_events_with_enrichment(d) ==
    LET rows == LeftJoin(d)
        n == Cardinality(rows)
    IN { [ j \in 1..n |-> LoadedEvent(s[j][1], s[j][2]) ] :
           s \in { q \in [1..n -> rows] :
                     \A j, k \in 1..n : j < k =>
                        /\ q[j] # q[k]
                        /\ TextLeq(q[k][1].timestamp, q[j][1].timestamp) } }

\* AIUsageEvent.to_dict
to_dict(e) ==
    [ id |-> e.id,
      timestamp |-> isoformat(e.timestamp),
      user_email |-> e.user_email,
      department |-> e.department,
      source_ip |-> e.source_ip,
      provider |-> e.provider,
      service |-> e.service,
      url |-> e.url,
      bytes_sent |-> e.bytes_sent,
      bytes_received |-> e.bytes_received,
      risk_level |-> e.risk_level,
      risk_reasons |-> e.risk_reasons,
      source_system |-> e.source_system,
      notes |-> e.notes,
      pii_risk |-> e.pii_risk,
      pii_reasons |-> e.pii_reasons,
      use_case |-> e.use_case,
      value_category |-> e.value_category,
      estimated_minutes_saved |-> e.estimated_minutes_saved,
      business_outcome |-> e.business_outcome,
      policy_alignment |-> e.policy_alignment,
      value_summary |-> e.value_summary ]

\* seed_database.dict_to_event; utcnow is the clock reading taken when the dict
\* has no timestamp text (isoformat() writes no "Z", so replace('Z', '+00:00')
\* leaves the texts of to_dict as they are).  The constructor is called with
\* seventeen arguments: the enrichment attributes take their defaults.
dict_to_event(event_dict, utcnow) ==
    Dataclass(
      [ id |-> event_dict.id,
        timestamp |-> IF "timestamp" \in DOMAIN event_dict
                      THEN fromisoformat(event_dict.timestamp) ELSE utcnow,
        user_email |-> dict_get(event_dict, "user_email", None),
        department |-> dict_get(event_dict, "department", None),
        source_ip |-> dict_get(event_dict, "source_ip", None),
        provider |-> event_dict.provider,
        service |-> event_dict.service,
        url |-> event_dict.url,
        bytes_sent |-> dict_get(event_dict, "bytes_sent", NoInt),
        bytes_received |-> dict_get(event_dict, "bytes_received", NoInt),
        risk_level |-> event_dict.risk_level,
        risk_reasons |-> dict_get(event_dict, "risk_reasons", << >>),
        source_system |-> dict_get(event_dict, "source_system", "network_logs_v1"),
        notes |-> dict_get(event_dict, "notes", None),
        pii_risk |-> dict_get(event_dict, "pii_risk", FALSE),
        pii_reasons |-> dict_get(event_dict, "pii_reasons", << >>),
        use_case |-> dict_get(event_dict, "use_case", "unknown") ])

\* ------------------------------------ to_dict and dict_to_event, call by call
\* The events the program holds: what the pipeline classified (log times of a
\* proxy that writes "Z" and of proxies that write an offset) and what
\* get_all_events_with_enrichment loads from a store in which the event has no
\* enrichment record, a successful one or a failed one.
RoundTripTimestamps == { datetime(1, NoInt) } \cup QueryTimestamps

ClassifiedEvents ==
    { [ e EXCEPT !.timestamp = t ] : e \in StoreInputs, t \in RoundTripTimestamps }

RoundTripStores ==
    LET stored(e) == [ EmptyDb EXCEPT !.events = upsert_event(@, e) ]
    IN { stored(e) : e \in ClassifiedEvents } \cup
       { save_value_enrichment(stored(e), e.id, a.enrichment, a.raw_response, a.error) :
           e \in ClassifiedEvents, a \in SaveInputs }

RoundTripInputs ==
    { Dataclass(e) : e \in ClassifiedEvents } \cup
    UNION { Range(s) : s \in UNION { get_all_events_with_enrichment(d) :
                                       d \in RoundTripStores } }

UtcNow == { datetime(4, NoInt) }

InitRoundTrip ==
    \E e \in RoundTripInputs : InitWith(EmptyDb, Pending("to_dict", e))

\* event.to_dict() returns
ToDictCall ==
    /\ IsPending("to_dict")
    /\ lastCall' = Returned("to_dict", lastCall.arg, to_dict(lastCall.arg))
    /\ UNCHANGED <<db, workerVars, okSaves>>

\* dict_to_event(d) returns, d the dict to_dict returned for `event`
DictToEventCall ==
    /\ HasReturned("to_dict")
    /\ \E now \in UtcNow :
         lastCall' = [ op |-> "dict_to_event", arg |-> lastCall.ret, returned |-> TRUE,
                       ret |-> dict_to_event(lastCall.ret, now),
                       event |-> lastCall.arg ]
    /\ UNCHANGED <<db, workerVars, okSaves>>

NextRoundTrip ==
    \/ ToDictCall
    \/ DictToEventCall

SpecRoundTrip == InitRoundTrip /\ [][NextRoundTrip]_vars


\* ------------------------------------------------- the enrichment schema
\* the values the prompt allows for value_category
ValueCategories == { "Productivity", "Quality", "Revenue", "CostReduction", "Innovation" }


\* ------------------------------ call_llm_for_enrichment, attempt by attempt
\* One call of call_llm_for_enrichment: outs[k + 1] is what attempt k of the
\* call ends in if the loop gets there, sleeps lists the arguments of the
\* time.sleep calls made so far, ret is what the call returned.
ServiceScripts == [ 1..max_retries -> Outcomes ]

LLMCall(outs) ==
    [ op |-> "call_llm_for_enrichment", outs |-> outs, attempt |-> 0,
      sleeps |-> << >>, returned |-> FALSE, ret |-> NoResult ]

InitService == \E outs \in ServiceScripts : InitWith(EmptyDb, LLMCall(outs))

\* one pass of `for attempt in range(self.max_retries)`
AttemptCall ==
    /\ IsPending("call_llm_for_enrichment")
    /\ LET k == lastCall.attempt
           o == lastCall.outs[k + 1]
           slept == IF SleepsFirst(o) \/ MayRetry(k)
                    THEN Append(lastCall.sleeps, Backoff(o, k))
                    ELSE lastCall.sleeps
       IN lastCall' =
            IF o = "ok"
            THEN [ lastCall EXCEPT !.returned = TRUE, !.ret = SuccessResult ]
            ELSE IF MayRetry(k)
            THEN [ lastCall EXCEPT !.attempt = k + 1, !.sleeps = slept ]
            ELSE [ lastCall EXCEPT !.returned = TRUE, !.sleeps = slept,
                                   !.ret = FailureResult(o) ]
    /\ UNCHANGED <<db, workerVars, okSaves>>

NextService == AttemptCall

SpecService == InitService /\ [][NextService]_vars


\* -------------------------------- two orchestrator instances on one store
\* The values the instance that takes the steps holds in its own memory and
\* connection.
Local ==
    [ conn |-> conn, pc |-> pc, batch |-> batch, idx |-> idx, attempt |-> attempt,
      outcome |-> outcome, result |-> result, stats |-> stats, raised |-> raised,
      saved |-> saved ]

\* The other instance takes the next steps.  SQLite lets one connection write
\* at a time: while an instance is inside its transaction the other one waits
\* for the lock (or times out, which is SaveRaises), and what it reads is the
\* committed store, the same as just before the transaction began.
Switch ==
    /\ conn = Closed
    /\ peer' = Local
    /\ conn' = peer.conn
    /\ pc' = peer.pc
    /\ batch' = peer.batch
    /\ idx' = peer.idx
    /\ attempt' = peer.attempt
    /\ outcome' = peer.outcome
    /\ result' = peer.result
    /\ stats' = peer.stats
    /\ raised' = peer.raised
    /\ saved' = peer.saved
    /\ UNCHANGED <<db, okSaves, lastCall>>

\* Each instance is run with --once, beside an ingestion of the events StoreIds.
NextTwo ==
    \/ \E i \in StoreIds : Ingest(AIUsageEvent(i, 1))
    \/ RunOnce
    \/ \E o \in Outcomes : CallLLM(o)
    \/ BackoffOver
    \/ SaveInsert
    \/ SaveMark
    \/ SaveCommit
    \/ SaveRaises
    \/ Pace
    \/ Switch

SpecTwo == Init /\ [][NextTwo]_vars


\* ---------------------------------------------------------------- get_stats
\* Database.get_stats: the five counts
get_stats(d) ==
    LET total_events == Cardinality(d.events)
        enriched_events == Cardinality({ r \in d.events : r.value_enriched = 1 })
    IN [ total_events |-> total_events,
         enriched_events |-> enriched_events,
         unenriched_events |-> total_events - enriched_events,
         total_enrichments |-> Len(d.value_enrichment),
         failed_enrichments |->
             Cardinality({ k \in DOMAIN d.value_enrichment :
                             d.value_enrichment[k].enrichment_error # None }) ]

\* ================================================================ claims
Flag(i) == EventRow(db.events, i).value_enriched
Record(i) == EnrichmentRow(db.value_enrichment, i)
NumRecords(i) == Cardinality(EnrichmentRows(db.value_enrichment, i))
Processing == pc \in { "call", "backoff", "save", "mark", "commit" }

\* the number of error-free saves committed so far, all events together
RECURSIVE SumOkSaves(_)
SumOkSaves(ids) ==
    IF ids = {} THEN 0
    ELSE LET i == CHOOSE x \in ids : TRUE
         IN okSaves[i] + SumOkSaves(ids \ {i})

\* C1: an event's enriched flag never goes back from 1 to 0, a new event starts
\* with the flag 0, and the flag goes from 0 to 1 only in a call of
\* save_value_enrichment for that id that carries no error.
C1_EnrichmentMonotone ==
    [][ \A i \in StoreIds :
          /\ (~HasEvent(db.events, i) /\ HasEvent(db'.events, i))
               => EventRow(db'.events, i).value_enriched = 0
          /\ HasEvent(db.events, i) =>
               /\ HasEvent(db'.events, i)
               /\ Flag(i) = 1 => EventRow(db'.events, i).value_enriched = 1
               /\ (Flag(i) = 0 /\ EventRow(db'.events, i).value_enriched = 1)
                    => /\ lastCall'.op = "save"
                       /\ lastCall'.event_id = i
                       /\ ~Truthy(lastCall'.error) ]_vars

\* An enriched event has just been saved again with an error, or upserted again.
C1_Witness ==
    \E i \in StoreIds :
       /\ HasEvent(db.events, i)
       /\ Flag(i) = 1
       /\ lastCall.op \in { "save", "upsert" }
       /\ lastCall.event_id = i
       /\ lastCall.op = "save" => Truthy(lastCall.error)

\* C2: upsert_event on an id that exists leaves the enriched flag and the whole
\* value_enrichment table as they were, and the stored risk_level, risk_reasons,
\* pii_risk, pii_reasons and use_case are those of the new event.
C2_ReingestPreservesEnrichment ==
    [][ \A e \in StoreInputs :
          (UpsertCall(e) /\ HasEvent(db.events, e.id)) =>
             /\ EventRows(db'.events, e.id) # {}
             /\ \A r \in EventRows(db'.events, e.id) :
                  /\ r.value_enriched = Flag(e.id)
                  /\ r.risk_level = e.risk_level
                  /\ r.risk_reasons = json_dumps(e.risk_reasons)
                  /\ r.pii_risk = (IF e.pii_risk THEN 1 ELSE 0)
                  /\ r.pii_reasons = json_dumps(e.pii_reasons)
                  /\ r.use_case = e.use_case
             /\ db'.value_enrichment = db.value_enrichment ]_vars

\* An enriched event with its record has just been upserted again with another
\* classification than the one it was inserted with.
C2_Witness ==
    \E i \in StoreIds :
       /\ lastCall.op = "upsert"
       /\ lastCall.event_id = i
       /\ HasEvent(db.events, i)
       /\ Flag(i) = 1
       /\ HasEnrichment(db.value_enrichment, i)
       /\ EventRow(db.events, i).risk_level = "medium"
       /\ EventRow(db.events, i).source_system = "network_logs_v1"

\* C3: with one worker and the ingestion running beside it, no event gets more
\* than one committed error-free save, and every event the worker still has to
\* process, is submitting to the service or is saving has the enriched flag 0.
C3_AtMostOneSuccess ==
    /\ \A i \in EventIds : okSaves[i] <= 1
    /\ Processing =>
         \A j \in idx..Len(batch) :
            /\ HasEvent(db.events, batch[j].id)
            /\ Flag(batch[j].id) = 0
    /\ pc = "pace" =>
         \A j \in (idx + 1)..Len(batch) :
            /\ HasEvent(db.events, batch[j].id)
            /\ Flag(batch[j].id) = 0

\* One event is enriched and, batches later, the worker submits another one.
C3_Witness ==
    /\ pc = "call"
    /\ stats.batches_processed >= 1
    /\ \E i \in EventIds :
         /\ i # Cur
         /\ HasEvent(db.events, i)
         /\ Flag(i) = 1
         /\ okSaves[i] = 1

\* C4: the value_enrichment table holds at most one row per event id, and after
\* a save for an id its one row is the row written by that save.
C4_OneRecordPerEvent ==
    \A i \in StoreIds :
       /\ NumRecords(i) <= 1
       /\ (lastCall.op = "save" /\ lastCall.event_id = i) =>
            /\ NumRecords(i) = 1
            /\ Record(i).enrichment_error = lastCall.error

\* An id was saved without an error at least twice and then with an error.
C4_Witness ==
    \E i \in StoreIds :
       /\ okSaves[i] = 2
       /\ lastCall.op = "save"
       /\ lastCall.event_id = i
       /\ Truthy(lastCall.error)
       /\ NumRecords(i) = 1

\* C5: a save_value_enrichment call with an error stores the error and the raw
\* response in the record of the id and changes no event row; an event whose
\* flag was 0 is afterwards in every answer of get_unenriched_events whose
\* limit is the size of the table.
C5_ErrorSaveKeepsEligible ==
    [][ \A i \in StoreIds, a \in SaveInputs :
          (SaveCall(i, a) /\ Truthy(a.error)) =>
             /\ HasEnrichment(db'.value_enrichment, i)
             /\ EnrichmentRow(db'.value_enrichment, i).enrichment_error = a.error
             /\ EnrichmentRow(db'.value_enrichment, i).raw_llm_response = a.raw_response
             /\ db'.events = db.events
             /\ (HasEvent(db.events, i) /\ Flag(i) = 0) =>
                  /\ EventRow(db'.events, i).value_enriched = 0
                  /\ \A s \in get_unenriched_events(db'.events, Cardinality(db'.events)) :
                       \E j \in DOMAIN s : s[j].id = i ]_vars

\* An unenriched event has just been saved with an error and a raw response.
C5_Witness ==
    \E i \in StoreIds :
       /\ lastCall.op = "save"
       /\ lastCall.event_id = i
       /\ HasEvent(db.events, i)
       /\ Truthy(lastCall.error)
       /\ Flag(i) = 0
       /\ Record(i).enrichment_error = lastCall.error
       /\ Record(i).raw_llm_response = "raw_incomplete"

\* C6: whatever the worker's transaction is doing (statements run, commit,
\* rollback, interrupt), the committed store every other connection reads has
\* the flag of an existing event at 1 exactly when it holds an error-free record
\* of the event: the record and the flag are committed together or not at all.
C6_SaveAtomic ==
    \A i \in EventIds :
       HasEvent(db.events, i) =>
          (Flag(i) = 1 <=>
             /\ HasEnrichment(db.value_enrichment, i)
             /\ ~Truthy(Record(i).enrichment_error))

\* The worker's transaction has written the error-free record and the flag and
\* has not committed yet: the committed store shows neither.
C6_Witness ==
    /\ pc = "commit"
    /\ conn # Closed
    /\ ~Truthy(conn.error)
    /\ EventRow(conn.events, Cur).value_enriched = 1
    /\ HasEnrichment(conn.value_enrichment, Cur)
    /\ Flag(Cur) = 0
    /\ ~HasEnrichment(db.value_enrichment, Cur)

\* C7: the service is called at most max_retries = 3 times for an event of a
\* batch; when the last attempt failed too and the save committed, the record of
\* the event carries the error and the raw response of that last attempt (None
\* if it had none), it is the only save of the call, the flag stays 0 and the
\* worker is at the pause before the next event.
C7_RetryBudget ==
    /\ attempt <= max_retries - 1
    /\ (pc \in { "save", "commit", "pace" } /\ outcome \in Failures) => attempt = max_retries - 1
    /\ (pc = "pace" /\ outcome \in Failures /\ raised = "none") =>
         /\ saved = << ErrorOf(outcome) >>
         /\ NumRecords(Cur) = 1
         /\ Record(Cur).enrichment_error = ErrorOf(outcome)
         /\ Record(Cur).raw_llm_response = RawOf(outcome)
         /\ Record(Cur).value_category = "Unknown"
         /\ Flag(Cur) = 0
    /\ (pc = "pace" /\ outcome \in Failures) => stats.events_failed >= 1

\* Three attempts failed, the last one with an incomplete response, and the
\* failure record is committed.
C7_Witness ==
    /\ pc = "pace"
    /\ outcome = "missing_fields"
    /\ attempt = 2
    /\ raised = "none"
    /\ Record(Cur).raw_llm_response = "raw_incomplete"
    /\ Flag(Cur) = 0

\* C8: when an attempt of a process_event call returns a complete response
\* after k < 3 failed attempts and the save committed, the event's flag is 1,
\* the event has exactly one record, with no error and the fields of the
\* response, and that save is the only one of the call.
C8_SuccessAfterFailures ==
    (pc = "pace" /\ outcome = "ok" /\ raised = "none") =>
       /\ attempt \in 0..(max_retries - 1)
       /\ Flag(Cur) = 1
       /\ NumRecords(Cur) = 1
       /\ Record(Cur) = EnrichmentValues(Cur, LLMEnrichment, RawOf("ok"), None)
       /\ saved = << None >>

\* Two attempts failed, the third succeeded and its save committed.
C8_Witness ==
    /\ pc = "pace"
    /\ outcome = "ok"
    /\ attempt = 2
    /\ raised = "none"
    /\ Flag(Cur) = 1

\* C9: while the loop runs, every stored event whose enriched flag is 0 is
\* eventually submitted to the external service (or is enriched already).
Submitted(i) == pc = "call" /\ Cur = i

C9_BacklogLiveness ==
    \A i \in EventIds :
       (HasEvent(db.events, i) /\ Flag(i) = 0)
          ~> (Submitted(i) \/ (HasEvent(db.events, i) /\ Flag(i) = 1))

\* C10: the loop stops only by the interrupt; after an exception of the fetch
\* the worker is at the sleep before the next batch, after an exception of an
\* event's save it is at the pause before the next event.
C10_LoopSurvivesExceptions ==
    /\ pc = "stopped" => raised = "interrupt"
    /\ raised = "fetch" => pc = "sleep"
    /\ raised = "save" => pc = "pace"

\* After a completed batch, the save of an event of a later batch raised and
\* the worker is at the pause before the next event.
C10_Witness ==
    /\ raised = "save"
    /\ pc = "pace"
    /\ stats.batches_processed >= 1

\* C11: the loop stops gracefully: when the interrupt arrives while an event's
\* attempt is in progress (the service is being called, a backoff sleep runs or
\* the save is under way), the loop does not stop there; it stops only once
\* that event's record is committed or its save has raised, with no transaction
\* open, and the statistics it then logs count the event.
C11_GracefulShutdown ==
    [][ (pc # "stopped" /\ pc' = "stopped") =>
           /\ ~Processing
           /\ conn = Closed
           /\ stats' = stats ]_vars

\* C12: within one process_batch call no event id is processed twice: the batch
\* holds every id once, the loop goes from an event only to the next position
\* of the same batch, whose id is none of the ids processed before it, whatever
\* the outcome of their attempts, and a process_event call commits at most one
\* save.
C12_NoDoubleProcessing ==
    [][ /\ \A j, k \in DOMAIN batch' : j < k => batch'[j].id # batch'[k].id
        /\ Len(saved') <= 1
        /\ pc # "fetch" => batch' = batch
        /\ (Processing /\ pc' # "stopped") => idx' = idx
        /\ (pc = "pace" /\ pc' = "call") =>
              /\ idx' \in DOMAIN batch
              /\ \A j \in 1..idx : batch[j].id # batch[idx'].id ]_vars

\* The first event of the batch failed all its attempts and is still
\* unenriched; the loop is at the second event of the same batch.
C12_Witness ==
    /\ pc = "call"
    /\ idx = 2
    /\ Len(batch) = 2
    /\ HasEnrichment(db.value_enrichment, batch[1].id)
    /\ Truthy(Record(batch[1].id).enrichment_error)
    /\ Flag(batch[1].id) = 0

\* C13: get_unenriched_events(limit) changes nothing in the store and returns
\* at most `limit` rows of the events table, every one with the enriched flag 0,
\* the later event before the earlier one, and no unenriched event it leaves
\* out is later than one it returns (the `limit` most recent ones).
C13_UnenrichedQuery ==
    [][ \A n \in QueryLimits :
          QueryCall(n) =>
             LET s == lastCall'.rows
                 When(r) == Instant(fromisoformat(r.timestamp))
             IN /\ db' = db
                /\ Len(s) <= n
                /\ \A j \in DOMAIN s : s[j] \in db.events /\ s[j].value_enriched = 0
                /\ \A j, k \in DOMAIN s : j < k => When(s[j]) >= When(s[k])
                /\ \A r \in Unenriched(db.events) :
                     (\A j \in DOMAIN s : s[j] # r) =>
                        \A j \in DOMAIN s : When(r) <= When(s[j]) ]_vars

\* C14: upsert_event is idempotent: on every store and for every event, the
\* events table after two calls with the event is the table after the first
\* call, with exactly one row of that id.
C14_UpsertIdempotent ==
    \A e \in StoreInputs :
       LET once == upsert_event(db.events, e)
           twice == upsert_event(once, e)
       IN /\ twice = once
          /\ Cardinality(EventRows(once, e.id)) = 1
          /\ Cardinality(EventRows(twice, e.id)) = 1

\* An event stored by one source system has just been upserted by the other,
\* and the same call once more would change nothing.
C14_Witness ==
    \E i \in StoreIds :
       /\ lastCall.op = "upsert"
       /\ lastCall.event_id = i
       /\ HasEvent(db.events, i)
       /\ EventRow(db.events, i).department = "Marketing"
       /\ EventRow(db.events, i).source_system = "network_logs_v1"
       /\ Flag(i) = 0
       /\ upsert_event(db.events, AIUsageEvent(i, 2)) = db.events

\* C15: upsert_event inserts the event when its id is absent; when the id is
\* there, the one row of the id afterwards carries the value of the new event in
\* every column (source_system, url and department among them) except the
\* enriched flag, which it keeps.
C15_UpsertOverwrites ==
    [][ \A e \in StoreInputs :
          UpsertCall(e) =>
             /\ Cardinality(EventRows(db'.events, e.id)) = 1
             /\ EventRow(db'.events, e.id) =
                  [ InsertedEventRow(e) EXCEPT
                      !.value_enriched =
                          IF HasEvent(db.events, e.id) THEN Flag(e.id) ELSE 0 ] ]_vars

\* C16: for every event, whatever its provider, department (missing or not),
\* bytes_sent (missing or not) and url, classify_risk returns a risk_level that
\* is one of low, medium, high and a list of reasons that is not empty.
C16_RiskLevelAndReasons ==
    HasReturned("classify_risk") =>
       /\ lastCall.ret.risk_level \in { "low", "medium", "high" }
       /\ Len(lastCall.ret.risk_reasons) >= 1

\* An event of an unknown provider with no department, no bytes_sent and a url
\* without "ai" has been classified.
C16_Witness ==
    /\ HasReturned("classify_risk")
    /\ lastCall.arg.provider = "unknown"
    /\ lastCall.arg.department = None
    /\ lastCall.arg.bytes_sent = NoInt
    /\ lastCall.arg.url = << "i", "a", "x" >>
    /\ lastCall.ret.risk_level = "low"

C18_FirstMatchingRule ==
    HasReturned("infer_use_case") =>
       LET e == lastCall.arg
           bytes == IF e.bytes_sent = NoInt THEN 0 ELSE IntOf(e.bytes_sent)
           rules ==
             << [on |-> e.provider = "github_copilot", label |-> "code_assistance"],
                [on |-> e.service = "web_ui"
                        /\ e.provider \in { "openai", "anthropic", "google" },
                 label |-> "content_generation"],
                [on |-> e.service = "chat" /\ bytes >= 10000, label |-> "data_extraction"],
                [on |-> e.service = "chat", label |-> "analysis_or_chat"],
                [on |-> e.service = "api" /\ bytes >= 10000, label |-> "data_extraction"],
                [on |-> e.service = "embeddings", label |-> "data_extraction"],
                [on |-> TRUE, label |-> "unknown"] >>
           first == CHOOSE k \in DOMAIN rules :
                       rules[k].on /\ \A j \in 1..(k - 1) : ~rules[j].on
       IN lastCall.ret = rules[first].label

\* A chat event with exactly 10000 bytes sent is data_extraction, the earlier
\* of the two chat rules.
C18_Witness ==
    /\ HasReturned("infer_use_case")
    /\ lastCall.arg.service = "chat"
    /\ lastCall.arg.provider = "openai"
    /\ lastCall.arg.bytes_sent = SomeInt(DATA_EXTRACTION_THRESHOLD)
    /\ lastCall.ret = "data_extraction"

\* C19: for an empty event collection aggregate_events returns, without an
\* error, the summary whose counts are all zero and whose shadow_ai_profile is
\* exactly "No AI usage detected in the analyzed logs.".
C19_EmptySummary ==
    (HasReturned("aggregate_events") /\ lastCall.arg = << >>) =>
       /\ "raised" \notin DOMAIN lastCall.ret
       /\ \A k \in DOMAIN lastCall.ret.kpis : lastCall.ret.kpis[k] = 0
       /\ \A k \in DOMAIN lastCall.ret.risk_counts : lastCall.ret.risk_counts[k] = 0
       /\ lastCall.ret.shadow_ai_profile = "No AI usage detected in the analyzed logs."

C21_RoundTrip ==
    HasReturned("dict_to_event") => lastCall.ret = lastCall.event

\* C22: an event loaded by get_all_events_with_enrichment has a non-null
\* value_category only if its enriched flag is true, and then one of the five
\* categories; an event whose attempts all failed loads with null outputs.
C22_NullUntilEnriched ==
    \A s \in get_all_events_with_enrichment(db) : \A k \in DOMAIN s :
        s[k].value_category # None =>
            /\ Flag(s[k].id) = 1
            /\ s[k].value_category \in ValueCategories

\* C23: if save_value_enrichment raises while an event is processed, the store
\* keeps the state it had before the call (nothing of the open transaction is
\* ever visible, and the raise leaves flag and record as they were), the worker
\* logs the error, counts the event as failed and not as enriched, and goes on
\* with the next event of the batch.
C23_PersistenceFailure ==
    [][ /\ (conn # Closed \/ conn' # Closed) /\ pc' # "pace" => db' = db
        /\ (pc \in { "save", "mark", "commit" } /\ pc' = "pace" /\ raised' = "save") =>
              /\ db' = db
              /\ conn' = Closed
              /\ okSaves' = okSaves
              /\ stats'.events_enriched = stats.events_enriched
              /\ stats.events_failed < MaxStat =>
                    stats'.events_failed = stats.events_failed + 1
              /\ stats.events_processed < MaxStat =>
                    stats'.events_processed = stats.events_processed + 1
        /\ (pc = "pace" /\ raised = "save" /\ pc' \notin { "pace", "stopped" }) =>
              IF idx < Len(batch)
              THEN pc' = "call" /\ idx' = idx + 1 /\ batch' = batch
              ELSE pc' = "sleep"
      ]_vars

\* the second event of a batch is being attempted after the save of a
\* successful result for the first one raised: nothing of it is stored
C23_Witness ==
    /\ pc = "call"
    /\ idx = 2
    /\ stats.events_failed = 1
    /\ stats.events_enriched = 0
    /\ NumRecords(batch[1].id) = 0
    /\ Flag(batch[1].id) = 0

\* C24: with retry_delay = 1 the wait after failed attempt k (0-based) is
\* 2^k seconds for a generic failure and 2^(k+2) seconds for a rate limit:
\* exponential in k and strictly longer for a rate limit at every index.
C24_Backoff ==
    lastCall.op = "call_llm_for_enrichment" =>
        /\ Len(lastCall.sleeps) >= lastCall.attempt
        /\ \A j \in DOMAIN lastCall.sleeps :
              /\ lastCall.sleeps[j] =
                    IF lastCall.outs[j] = "rate_limit"
                    THEN << 4, 8, 16 >>[j] ELSE << 1, 2, 4 >>[j]
              /\ << 4, 8, 16 >>[j] > << 1, 2, 4 >>[j]

\* a call whose first attempt hit the rate limit and whose second timed out
C24_Witness ==
    /\ HasReturned("call_llm_for_enrichment")
    /\ lastCall.outs[1] = "rate_limit"
    /\ lastCall.outs[2] = "timeout"
    /\ lastCall.sleeps = << 4, 2 >>

\* C30: the call backs off only between attempts: after the last (third)
\* failed attempt it returns the failure without a further sleep, whatever
\* the failure kind.
C30_NoBackoffAfterLastAttempt ==
    ( /\ HasReturned("call_llm_for_enrichment")
      /\ lastCall.ret.error # None ) =>
        /\ lastCall.attempt = max_retries - 1
        /\ Len(lastCall.sleeps) = max_retries - 1

\* C25: in the continuous loop two fetches never happen without a sleep
\* between them: a fetch (empty, non-empty or raising) leaves the fetching
\* position, and the loop comes back to it only from the end of a sleep.
C25_SleepBetweenFetches ==
    [][ /\ (pc = "fetch" /\ workerVars' # workerVars) =>
              pc' \in { "call", "sleep", "stopped" }
        /\ (pc' = "fetch" /\ pc # "fetch") => pc = "sleep"
      ]_vars

\* the loop is about to fetch again, after a batch of one event and a sleep
C25_Witness ==
    /\ pc = "fetch"
    /\ stats.batches_processed = 1
    /\ Len(batch) = 1

\* C26: with two orchestrator instances on one store the same event can be
\* submitted to the external service by both and saved successfully twice;
\* even then the store has at most one enrichment record per event and no
\* enriched flag goes back to false.
C26_TwoOrchestrators ==
    [][ \A i \in StoreIds :
          /\ NumRecords(i)' <= 1
          /\ (HasEvent(db.events, i) /\ Flag(i) = 1) =>
                (HasEvent(db'.events, i) /\ Flag(i)' = 1)
      ]_vars

\* both instances are attempting event 1 at the same time
C26_Witness ==
    /\ pc = "call" /\ Cur = 1
    /\ peer.pc = "call" /\ peer.batch[peer.idx].id = 1

\* C27: at the end of every process_batch call events_processed =
\* events_enriched + events_failed, and events_enriched is the number of
\* error-free saves this worker has committed (the counters are exact as long
\* as the batch has no more than MaxStat events).
C27_StatsConsistent ==
    (pc = "sleep" /\ Len(batch) <= MaxStat) =>
        /\ stats.events_processed = stats.events_enriched + stats.events_failed
        /\ stats.events_enriched = SumOkSaves(DOMAIN okSaves)

\* a batch of two events is over: one was enriched, the save of the other raised
C27_Witness ==
    /\ pc = "sleep"
    /\ Len(batch) = 2
    /\ stats.events_enriched = 1
    /\ stats.events_failed = 1
    /\ \E k \in 1..2 : NumRecords(batch[k].id) = 0

\* C28: every event whose enriched flag is true has an enrichment record whose
\* error is unset (None or empty): a later save with an error never replaces
\* the successful projection of an enriched event.
C28_EnrichedRecordErrorFree ==
    \A i \in StoreIds :
        (HasEvent(db.events, i) /\ Flag(i) = 1) =>
            /\ NumRecords(i) = 1
            /\ ~Truthy(Record(i).enrichment_error)

\* C29: when the save of a successful attempt commits for an event that has a
\* failure record from an earlier batch (error set, flag 0), the event ends
\* with exactly one record, its error cleared and its fields those of the
\* successful result, the flag is 1, and get_stats counts one failed
\* enrichment less (and one enriched event more).
C29_RecoveryAcrossBatches ==
    [][ ( /\ pc = "commit" /\ pc' = "pace" /\ raised' = "none"
          /\ outcome = "ok"
          /\ HasEnrichment(db.value_enrichment, Cur)
          /\ Record(Cur).enrichment_error # None
          /\ Flag(Cur) = 0 ) =>
            /\ NumRecords(Cur)' = 1
            /\ Record(Cur)' = EnrichmentValues(Cur, LLMEnrichment, RawOf("ok"), None)
            /\ Flag(Cur)' = 1
            /\ get_stats(db').failed_enrichments = get_stats(db).failed_enrichments - 1
            /\ get_stats(db').total_enrichments = get_stats(db).total_enrichments
            /\ get_stats(db').enriched_events = get_stats(db).enriched_events + 1
      ]_vars

\* the store shows the failure record of an earlier batch (get_stats counts
\* it) while the transaction of the successful save, with the error cleared
\* and the flag set, is about to commit
C29_Witness ==
    /\ pc = "commit" /\ outcome = "ok"
    /\ stats.batches_processed >= 1
    /\ HasEvent(db.events, Cur) /\ Flag(Cur) = 0
    /\ HasEnrichment(db.value_enrichment, Cur)
    /\ Record(Cur).enrichment_error = ErrorOf("timeout")
    /\ get_stats(db).failed_enrichments = 1
    /\ EnrichmentRow(conn.value_enrichment, Cur).enrichment_error = None
    /\ EventRow(conn.events, Cur).value_enriched = 1

====
